---- MODULE Spec2Model ----
(***************************************************************************)
(* Inventory-management backend: create_product (src/debugged.py),         *)
(* get_low_stock_alerts and update_product_threshold (src/api.py), over a  *)
(* shared relational store.                                                *)
(*                                                                         *)
(* Spec       : concurrent create_product requests, one step per statement *)
(*              that touches the session or the database.                  *)
(* AlertSpec  : get_low_stock_alerts and update_product_threshold requests *)
(*              over a stored inventory / sales state.                     *)
(***************************************************************************)
EXTENDS Integers, Sequences, FiniteSets, TLC

\* ------------------------------------------------------------------ bounds
NumRequests == 2
MaxStock == 2
MaxSold == 3
MaxThreshold == 1

\* --------------------------------------------------------------- constants
\* None / SQL NULL for integer-valued fields
NULL == -1
\* fields.Length(min=1, max=50) of ProductCreateSchema.sku
MaxSkuLen == 50
\* COALESCE(pc.low_stock_threshold, 10)
DefaultThreshold == 10
\* ELSE 999 and min(row.days_until_stockout, 999)
StockoutCap == 999
\* a["days_until_stockout"] <= 7
CriticalDays == 7

Requests == 1..NumRequests
Companies == {1, 2}

\* The warehouses table: two active warehouses of different companies and an
\* inactive warehouse of company 1.
Warehouses ==
    { [id |-> 1, company_id |-> 1, is_active |-> TRUE],
      [id |-> 2, company_id |-> 2, is_active |-> TRUE],
      [id |-> 3, company_id |-> 1, is_active |-> FALSE] }

\* current_user: anonymous, or a logged-in user of company 1 or 2
Users ==
    { [is_authenticated |-> FALSE, id |-> NULL, company_id |-> NULL],
      [is_authenticated |-> TRUE, id |-> 1, company_id |-> 1],
      [is_authenticated |-> TRUE, id |-> 2, company_id |-> 2] }

\* SKUs are sequences of characters.
SkuChars == {"A", "B", "1", "2", "-"}
SkuInputs == { <<"A", "-", "1">>, <<"B", "2">>, <<"A", "_", "1">> }

\* request.json of POST /api/products: the (warehouse_id, company_id) pairs
\* name an active warehouse of company 1, its inactive warehouse, the
\* warehouse of company 2, and that warehouse under company 1.
WarehouseInputs == { <<1, 1>>, <<3, 1>>, <<2, 2>>, <<2, 1>> }
QuantityInputs == {-1, 0}
CreateInputs ==
    { [sku |-> sku, warehouse_id |-> wc[1], initial_quantity |-> q, company_id |-> wc[2]]
        : sku \in SkuInputs, wc \in WarehouseInputs, q \in QuantityInputs }

\* current_user of a create_product request
CreateUsers == { u \in Users : u.company_id # 2 }

NoData == [sku |-> <<>>, warehouse_id |-> NULL, initial_quantity |-> 0, company_id |-> NULL]
NoUser == [is_authenticated |-> FALSE, id |-> NULL, company_id |-> NULL]
NoResp == [code |-> 0, error |-> ""]

Categories == {1, 2}
NoRequest == [op |-> "none"]
NoResponse == [op |-> "none", code |-> 0]

VARIABLES
    products,      \* committed rows of the products table
    inventory,     \* committed rows of the inventory table
    history,       \* committed rows of the inventory_history table
    nextId,        \* the products.id sequence
    pc,            \* per request: position in create_product
    data,          \* per request: the loaded request body
    user,          \* per request: current_user
    pid,           \* per request: product.id after the flush, else NULL
    pending,       \* per request: rows added to the session, not yet committed
    faulted,       \* per request: an exception other than the SKU violation was raised
    resp,          \* per request: the response (status code, error text)
    categoryThreshold, \* product_categories: id -> low_stock_threshold (or NULL)
    sales,         \* sale_items joined with their sale
    integerColumns,\* the quantity columns are INTEGER (else NUMERIC)
    lastReq,       \* the latest alerts / threshold request
    lastResp       \* and its response

storeVars == <<products, inventory, history, nextId>>
reqVars == <<pc, data, user, pid, pending, faulted, resp>>
alertVars == <<categoryThreshold, sales, integerColumns, lastReq, lastResp>>
vars == <<storeVars, reqVars, alertVars>>

\* ------------------------------------------------------------ pure helpers

\* ProductCreateSchema: sku length 1..50, initial_quantity >= 0
SchemaValid(d) ==
    /\ Len(d.sku) >= 1
    /\ Len(d.sku) <= MaxSkuLen
    /\ d.initial_quantity >= 0

\* validate_sku_format: ^[A-Za-z0-9\-]+$
ValidSkuFormat(sku) ==
    /\ Len(sku) >= 1
    /\ \A i \in 1..Len(sku) : sku[i] \in SkuChars

\* Warehouse.query.filter_by(id=..., company_id=...).first()
FindWarehouse(d) ==
    { w \in Warehouses : w.id = d.warehouse_id /\ w.company_id = d.company_id }

\* Product.query.filter_by(sku=...).first()
FindProductBySku(sku) == { p \in products : p.sku = sku }

EmptyPending == [product |-> {}, inventory |-> {}, history |-> {}]

Respond(r, code, error) ==
    /\ resp' = [resp EXCEPT ![r] = [code |-> code, error |-> error]]
    /\ pc' = [pc EXCEPT ![r] = "done"]

\* A rollback that keeps the flushed product row, as if the flush had committed.
RollbackKeepsFlushed(r) ==
    /\ pending' = [pending EXCEPT ![r] = EmptyPending]
    /\ products' = products \cup pending[r].product
    /\ UNCHANGED <<inventory, history>>

\* db.session.rollback(): the rows added to the session are discarded, the
\* tables are left as they were
Rollback(r) ==
    /\ pending' = [pending EXCEPT ![r] = EmptyPending]
    /\ UNCHANGED <<products, inventory, history>>

\* except Exception (inner, around the three inserts and the commit)
InnerHandler(r) ==
    /\ Rollback(r)
    /\ Respond(r, 500, "Failed to create product")

\* except Exception (outer, around the whole handler)
OuterHandler(r) ==
    /\ Rollback(r)
    /\ Respond(r, 500, "Internal server error")

\* The unique index on products.sku makes an INSERT wait for a concurrent
\* uncommitted INSERT of the same key.
SkuLockedByOther(r) ==
    \E r2 \in Requests \ {r} : \E p \in pending[r2].product : p.sku = data[r].sku

\* ------------------------------------------------------------------ Init
Init ==
    /\ products = {}
    /\ inventory = {}
    /\ history = {}
    /\ nextId = 1
    /\ pc = [r \in Requests |-> "idle"]
    /\ data = [r \in Requests |-> NoData]
    /\ user = [r \in Requests |-> NoUser]
    /\ pid = [r \in Requests |-> NULL]
    /\ pending = [r \in Requests |-> EmptyPending]
    /\ faulted = [r \in Requests |-> FALSE]
    /\ resp = [r \in Requests |-> NoResp]
    /\ categoryThreshold = [c \in Categories |-> NULL]
    /\ sales = {}
    /\ integerColumns = TRUE
    /\ lastReq = NoRequest
    /\ lastResp = NoResponse

\* --------------------------------------------------------------- actions

\* The request arrives; schema.load and validate_sku_format run.
LoadRequest(r) ==
    /\ pc[r] = "idle"
    /\ \E d \in CreateInputs :
        /\ data' = [data EXCEPT ![r] = d]
        /\ IF SchemaValid(d) /\ ValidSkuFormat(d.sku)
           THEN /\ pc' = [pc EXCEPT ![r] = "auth"]
                /\ UNCHANGED resp
           ELSE Respond(r, 400, "Validation failed")
    /\ UNCHANGED <<products, inventory, history, nextId, user, pid, pending, faulted>>

\* current_user is read; if not current_user.is_authenticated: 401
CheckAuth(r) ==
    /\ pc[r] = "auth"
    /\ \E u \in CreateUsers :
        /\ user' = [user EXCEPT ![r] = u]
        /\ IF ~u.is_authenticated
           THEN Respond(r, 401, "Authentication required")
           ELSE /\ pc' = [pc EXCEPT ![r] = "warehouse"]
                /\ UNCHANGED resp
    /\ UNCHANGED <<products, inventory, history, nextId, data, pid, pending, faulted>>

\* Warehouse lookup by (warehouse_id, company_id) of the request body
LookupWarehouse(r) ==
    /\ pc[r] = "warehouse"
    /\ IF FindWarehouse(data[r]) = {}
       THEN Respond(r, 400, "Invalid warehouse ID")
       ELSE /\ pc' = [pc EXCEPT ![r] = "skucheck"]
            /\ UNCHANGED resp
    /\ UNCHANGED <<products, inventory, history, nextId, data, user, pid, pending, faulted>>

\* Pre-flight SKU lookup: sees committed rows only
CheckSku(r) ==
    /\ pc[r] = "skucheck"
    /\ IF FindProductBySku(data[r].sku) # {}
       THEN Respond(r, 409, "SKU already exists")
       ELSE /\ pc' = [pc EXCEPT ![r] = "begin"]
            /\ UNCHANGED resp
    /\ UNCHANGED <<products, inventory, history, nextId, data, user, pid, pending, faulted>>

\* db.session.begin()
Begin(r) ==
    /\ pc[r] = "begin"
    /\ pc' = [pc EXCEPT ![r] = "flush"]
    /\ UNCHANGED <<products, inventory, history, nextId, data, user, pid, pending, faulted, resp>>

\* db.session.add(product); db.session.flush(): the INSERT runs, the unique
\* index on sku is checked against the committed rows; a violation raises
\* IntegrityError inside the inner try.
AddProductFlush(r) ==
    /\ pc[r] = "flush"
    /\ ~SkuLockedByOther(r)
    /\ nextId' = nextId + 1
    /\ IF FindProductBySku(data[r].sku) # {}
       THEN /\ InnerHandler(r)
            /\ UNCHANGED pid
       ELSE /\ pending' = [pending EXCEPT ![r].product =
                              { [id |-> nextId, sku |-> data[r].sku,
                                 company_id |-> data[r].company_id,
                                 category_id |-> NULL, is_active |-> TRUE] }]
            /\ pid' = [pid EXCEPT ![r] = nextId]
            /\ pc' = [pc EXCEPT ![r] = "inventory"]
            /\ UNCHANGED <<products, inventory, history, resp>>
    /\ UNCHANGED <<data, user, faulted>>

\* db.session.add(inventory)
AddInventory(r) ==
    /\ pc[r] = "inventory"
    /\ pending' = [pending EXCEPT ![r].inventory =
                      { [product_id |-> pid[r], warehouse_id |-> data[r].warehouse_id,
                         quantity |-> data[r].initial_quantity] }]
    /\ pc' = [pc EXCEPT ![r] = "history"]
    /\ UNCHANGED <<products, inventory, history, nextId, data, user, pid, faulted, resp>>

\* db.session.add(inventory_history)
AddHistory(r) ==
    /\ pc[r] = "history"
    /\ pending' = [pending EXCEPT ![r].history =
                      { [product_id |-> pid[r], warehouse_id |-> data[r].warehouse_id,
                         change_type |-> "INITIAL_STOCK",
                         quantity_change |-> data[r].initial_quantity,
                         new_quantity |-> data[r].initial_quantity,
                         created_by |-> user[r].id] }]
    /\ pc' = [pc EXCEPT ![r] = "commit"]
    /\ UNCHANGED <<products, inventory, history, nextId, data, user, pid, faulted, resp>>

\* db.session.commit(); return 201
Commit(r) ==
    /\ pc[r] = "commit"
    /\ products' = products \cup pending[r].product
    /\ inventory' = inventory \cup pending[r].inventory
    /\ history' = history \cup pending[r].history
    /\ pending' = [pending EXCEPT ![r] = EmptyPending]
    /\ Respond(r, 201, "")
    /\ UNCHANGED <<nextId, data, user, pid, faulted>>

\* An exception other than the SKU violation raised inside the inner try
\* (a failing statement after db.session.begin()).
InnerFault(r) ==
    /\ pc[r] \in {"flush", "inventory", "history", "commit"}
    /\ faulted' = [faulted EXCEPT ![r] = TRUE]
    /\ InnerHandler(r)
    /\ UNCHANGED <<nextId, data, user, pid>>

\* An exception raised by a query or by db.session.begin(), outside the inner try
OuterFault(r) ==
    /\ pc[r] \in {"warehouse", "skucheck", "begin"}
    /\ faulted' = [faulted EXCEPT ![r] = TRUE]
    /\ OuterHandler(r)
    /\ UNCHANGED <<nextId, data, user, pid>>

Next ==
    /\ UNCHANGED alertVars
    /\ \E r \in Requests :
        \/ LoadRequest(r)
        \/ CheckAuth(r)
        \/ LookupWarehouse(r)
        \/ CheckSku(r)
        \/ Begin(r)
        \/ AddProductFlush(r)
        \/ AddInventory(r)
        \/ AddHistory(r)
        \/ Commit(r)
        \/ InnerFault(r)
        \/ OuterFault(r)

Spec == Init /\ [][Next]_vars

\* ----------------------------------------------------------------- claims

Done(r) == pc[r] = "done"

\* the request passed validation, authentication and the warehouse lookup,
\* and no exception other than a SKU violation was raised
CleanCreate(r) ==
    /\ Done(r)
    /\ SchemaValid(data[r]) /\ ValidSkuFormat(data[r].sku)
    /\ user[r].is_authenticated
    /\ FindWarehouse(data[r]) # {}
    /\ ~faulted[r]

\* C1: of two finished, otherwise valid create_product requests with the same
\* SKU, exactly one answered 201 and the other 409.
C1_SameSkuOne201Other409 ==
    \A r1, r2 \in Requests :
        (r1 # r2 /\ CleanCreate(r1) /\ CleanCreate(r2) /\ data[r1].sku = data[r2].sku)
            => {resp[r1].code, resp[r2].code} = {201, 409}

HasProduct(r) == \E p \in products : p.id = pid[r]
HasInventory(r) ==
    \E i \in inventory : i.product_id = pid[r] /\ i.warehouse_id = data[r].warehouse_id
HasHistory(r) ==
    \E h \in history : h.product_id = pid[r] /\ h.change_type = "INITIAL_STOCK"

\* C2: after a create_product request has finished, the product row, the
\* inventory row and the INITIAL_STOCK history row of that request all exist
\* and the response is 201, or none of the three exists and the response is
\* not 201.
C2_AllOrNothing ==
    \A r \in Requests :
        Done(r) =>
            \/ resp[r].code = 201 /\ HasProduct(r) /\ HasInventory(r) /\ HasHistory(r)
            \/ resp[r].code # 201 /\ ~HasProduct(r) /\ ~HasInventory(r) /\ ~HasHistory(r)

\* a request failed after its product was flushed, and another one succeeded
C2_Witness ==
    \E r1, r2 \in Requests :
        /\ Done(r1) /\ faulted[r1] /\ pid[r1] # NULL /\ resp[r1].code = 500
        /\ Done(r2) /\ resp[r2].code = 201 /\ HasProduct(r2)

WarehouseById(id) == CHOOSE w \in Warehouses : w.id = id
ProductById(id) == CHOOSE p \in products : p.id = id

\* C9: every inventory row has quantity >= 0 and references an active product
\* and an active warehouse of the same company.
C9_InventoryRowsValid ==
    \A i \in inventory :
        /\ i.quantity >= 0
        /\ \E p \in products : \E w \in Warehouses :
              /\ p.id = i.product_id /\ w.id = i.warehouse_id
              /\ p.is_active /\ w.is_active
              /\ p.company_id = w.company_id

\* C10: a create_product request answers 201 only when the warehouse belongs
\* to the company of the authenticated user, and the product it creates is a
\* product of that company.
C10_OnlyOwnCompany ==
    \A r \in Requests :
        (Done(r) /\ resp[r].code = 201) =>
            /\ WarehouseById(data[r].warehouse_id).company_id = user[r].company_id
            /\ \A p \in products : p.id = pid[r] => p.company_id = user[r].company_id

\* =========================================================================
\* get_low_stock_alerts and update_product_threshold (src/api.py)
\* =========================================================================

\* The products table of the alert scenarios: products 1 and 2 of company 1
\* and product 4 of company 2 share category 1, product 3 has no category,
\* products 5 (inactive) and 6 are in category 2.
AlertProducts ==
    { [id |-> 1, sku |-> <<"A", "-", "1">>, company_id |-> 1, category_id |-> 1, is_active |-> TRUE],
      [id |-> 2, sku |-> <<"A", "-", "2">>, company_id |-> 1, category_id |-> 1, is_active |-> TRUE],
      [id |-> 3, sku |-> <<"B", "1">>, company_id |-> 1, category_id |-> NULL, is_active |-> TRUE],
      [id |-> 4, sku |-> <<"B", "2">>, company_id |-> 2, category_id |-> 1, is_active |-> TRUE],
      [id |-> 5, sku |-> <<"B", "-", "1">>, company_id |-> 1, category_id |-> 2, is_active |-> FALSE],
      [id |-> 6, sku |-> <<"B", "-", "2">>, company_id |-> 1, category_id |-> 2, is_active |-> TRUE] }

\* supplier_products joined with suppliers
SupplierProducts ==
    { [product_id |-> 1, supplier_id |-> 7, is_primary_supplier |-> TRUE],
      [product_id |-> 2, supplier_id |-> 8, is_primary_supplier |-> FALSE] }

\* The inventory table: the stock of product 1 varies; product 3 is at the
\* default threshold and product 6 just above it.
AlertInventory(q1) ==
    { [product_id |-> 1, warehouse_id |-> 1, quantity |-> q1],
      [product_id |-> 2, warehouse_id |-> 1, quantity |-> 1],
      [product_id |-> 3, warehouse_id |-> 1, quantity |-> DefaultThreshold],
      [product_id |-> 6, warehouse_id |-> 1, quantity |-> DefaultThreshold + 1],
      [product_id |-> 4, warehouse_id |-> 2, quantity |-> 1],
      [product_id |-> 5, warehouse_id |-> 1, quantity |-> 1],
      [product_id |-> 1, warehouse_id |-> 3, quantity |-> 1] }

Sale(id, p, w, q, c, age, status) ==
    [id |-> id, product_id |-> p, warehouse_id |-> w, quantity |-> q,
     company_id |-> c, age |-> age, status |-> status]

\* The sale items; age is the number of days between sale_date and now. The
\* completed sale of product 1 in warehouse 1 varies (none when a = 0).
AlertSales(a) ==
    (IF a > 0 THEN {Sale(1, 1, 1, a, 1, 1, "completed")} ELSE {})
    \cup { Sale(2, 2, 1, 2, 1, 1, "completed"),
           Sale(3, 3, 1, 1, 1, 0, "completed"),
           Sale(4, 4, 2, 2, 2, 1, "completed"),
           Sale(5, 1, 1, 3, 1, 1, "pending"),
           Sale(6, 2, 1, 1, 1, 50, "completed"),
           Sale(7, 1, 1, 2, 2, 1, "completed"),
           Sale(8, 5, 1, 2, 1, 1, "completed"),
           Sale(9, 1, 3, 2, 1, 1, "completed"),
           Sale(10, 6, 1, 2, 1, 1, "completed") }

\* request.args of the alerts endpoint
WarehouseFilters == { {}, {1} }
CategoryFilters == { {}, {1} }
LookbackInputs == {0, 1, 100}

\* JSON values of the 'threshold' key, as Python objects
PyInt(n) == [type |-> "int", v |-> n]
ThresholdInputs ==
    { PyInt(n) : n \in (-1)..MaxThreshold }
    \cup { [type |-> "bool", v |-> 1], [type |-> "str", v |-> 0] }

ProductIdInputs == {1, 3, 4}

AlertInit ==
    /\ \E q1 \in 0..MaxStock : inventory = AlertInventory(q1)
    /\ \E a \in 0..MaxSold : sales = AlertSales(a)
    /\ integerColumns \in BOOLEAN
    /\ products = AlertProducts
    /\ history = {}
    /\ nextId = 7
    /\ categoryThreshold = [c \in Categories |-> NULL]
    /\ lastReq = NoRequest
    /\ lastResp = NoResponse
    /\ pc = [r \in Requests |-> "idle"]
    /\ data = [r \in Requests |-> NoData]
    /\ user = [r \in Requests |-> NoUser]
    /\ pid = [r \in Requests |-> NULL]
    /\ pending = [r \in Requests |-> EmptyPending]
    /\ faulted = [r \in Requests |-> FALSE]
    /\ resp = [r \in Requests |-> NoResp]

\* -------------------------------------------------------- SQL arithmetic

RECURSIVE SumQuantity(_)
\* SUM(si.quantity)
SumQuantity(S) ==
    IF S = {} THEN 0
    ELSE LET s == CHOOSE x \in S : TRUE
         IN s.quantity + SumQuantity(S \ {s})

Abs(x) == IF x < 0 THEN -x ELSE x

\* integer / integer in SQL: truncates toward zero
TruncDiv(a, b) ==
    IF (a >= 0) = (b > 0) THEN Abs(a) \div Abs(b) ELSE -(Abs(a) \div Abs(b))

\* ROUND of num/den for num >= 0, den > 0: half away from zero
RoundDiv(num, den) == (2 * num + den) \div (2 * den)

Min(a, b) == IF a <= b THEN a ELSE b

\* A velocity is the rational n/d with d > 0.
ZeroVelocity == [n |-> 0, d |-> 1]

\* COALESCE(SUM(si.quantity) / NULLIF(:recent_days, 0), 0)
DailyVelocity(total, days) ==
    IF days = 0 THEN ZeroVelocity
    ELSE IF integerColumns THEN [n |-> TruncDiv(total, days), d |-> 1]
    ELSE IF days > 0 THEN [n |-> total, d |-> days]
    ELSE [n |-> -total, d |-> -days]

VelocityPositive(v) == v.n > 0
VelocityGE(x, y) == x.n * y.d >= y.n * x.d

\* CASE WHEN rsv.daily_velocity > 0 THEN ROUND(i.quantity / rsv.daily_velocity)
\*      ELSE 999 END
DaysUntilStockout(quantity, v) ==
    IF VelocityPositive(v)
    THEN IF integerColumns THEN TruncDiv(quantity, v.n)
         ELSE RoundDiv(quantity * v.d, v.n)
    ELSE StockoutCap

\* ------------------------------------------------------------ the query

\* WHERE s.company_id = :company_id AND s.sale_date >= :recent_cutoff
\*   AND s.status = 'completed'
RecentSales(company_id, days) ==
    { s \in sales : s.company_id = company_id /\ s.age <= days /\ s.status = "completed" }

\* WITH recent_sales_velocity AS (... GROUP BY si.product_id, si.warehouse_id)
RecentSalesVelocity(company_id, days) ==
    LET rs == RecentSales(company_id, days)
        keys == { <<s.product_id, s.warehouse_id>> : s \in rs }
        group(k) == { s \in rs : s.product_id = k[1] /\ s.warehouse_id = k[2] }
        row(k, g, total) ==
            [product_id |-> k[1], warehouse_id |-> k[2],
             total_sold |-> total,
             daily_velocity |-> DailyVelocity(total, days),
             sales_days |-> Cardinality({ s.age : s \in g })]
    IN { row(k, group(k), SumQuantity(group(k))) : k \in keys }

\* LEFT JOIN product_categories pc ON p.category_id = pc.id
CategoryThresholdOf(p) ==
    IF p.category_id \in DOMAIN categoryThreshold
    THEN categoryThreshold[p.category_id] ELSE NULL

\* COALESCE(pc.low_stock_threshold, 10)
Coalesce(x, default) == IF x = NULL THEN default ELSE x

\* WITH product_thresholds AS (... WHERE p.company_id = :company_id)
ProductThresholds(company_id) ==
    { [product_id |-> p.id, threshold |-> Coalesce(CategoryThresholdOf(p), DefaultThreshold)]
        : p \in { x \in products : x.company_id = company_id } }

\* LEFT JOIN supplier_products sp ON ... AND sp.is_primary_supplier = true
\* LEFT JOIN suppliers s ON sp.supplier_id = s.id
PrimarySuppliers(p) ==
    LET sp == { x \in SupplierProducts : x.product_id = p.id /\ x.is_primary_supplier }
    IN IF sp = {} THEN {NULL} ELSE { x.supplier_id : x \in sp }

\* i.quantity < pt.threshold where the query has <=
StrictlyBelowThreshold(p, w, i, pt, rsv, company_id, warehouse_ids, category_ids) ==
    /\ p.company_id = company_id
    /\ w.company_id = company_id
    /\ p.is_active
    /\ w.is_active
    /\ i.quantity < pt.threshold
    /\ rsv.total_sold > 0
    /\ (warehouse_ids = {} \/ w.id \in warehouse_ids)
    /\ (category_ids = {} \/ p.category_id \in category_ids)

\* The WHERE clause of the main SELECT
WhereClause(p, w, i, pt, rsv, company_id, warehouse_ids, category_ids) ==
    /\ p.company_id = company_id
    /\ w.company_id = company_id
    /\ p.is_active
    /\ w.is_active
    /\ i.quantity <= pt.threshold
    /\ rsv.total_sold > 0
    /\ (warehouse_ids = {} \/ w.id \in warehouse_ids)
    /\ (category_ids = {} \/ p.category_id \in category_ids)

\* One row of the SELECT list
SelectList(p, w, i, pt, rsv, sid) ==
    [product_id |-> p.id, sku |-> p.sku, warehouse_id |-> w.id,
     current_stock |-> i.quantity, threshold |-> pt.threshold,
     daily_velocity |-> rsv.daily_velocity, total_sold |-> rsv.total_sold,
     sales_days |-> rsv.sales_days,
     days_until_stockout |-> DaysUntilStockout(i.quantity, rsv.daily_velocity),
     supplier_id |-> sid]

\* SELECT DISTINCT ... FROM products p JOIN inventory i JOIN warehouses w
\* JOIN product_thresholds pt LEFT JOIN recent_sales_velocity rsv ... WHERE ...
\* A row the LEFT JOIN leaves without an rsv has total_sold NULL and fails
\* rsv.total_sold > 0, so the rows are those of the inner join.
SelectRows(company_id, warehouse_ids, category_ids, days) ==
    LET rsvs == RecentSalesVelocity(company_id, days)
        pts == ProductThresholds(company_id)
        joined ==
            { t \in rsvs \X inventory :
                t[2].product_id = t[1].product_id /\ t[2].warehouse_id = t[1].warehouse_id }
        rowsOf(rsv, i) ==
            UNION { UNION { UNION {
                { SelectList(p, w, i, pt, rsv, sid) : sid \in PrimarySuppliers(p) }
                : pt \in { x \in pts : x.product_id = p.id
                            /\ WhereClause(p, w, i, x, rsv, company_id, warehouse_ids, category_ids) } }
                : w \in { x \in Warehouses : x.id = i.warehouse_id } }
                : p \in { x \in products : x.id = i.product_id } }
    IN UNION { rowsOf(t[1], t[2]) : t \in joined }

\* (i.quantity::float / NULLIF(pt.threshold, 0)) is NULL for a threshold of 0
RatioIsNull(row) == row.threshold = 0

\* ratio(a) < ratio(b) in ASC order, NULLs last
RatioBefore(a, b) ==
    IF RatioIsNull(a) THEN FALSE
    ELSE IF RatioIsNull(b) THEN TRUE
    ELSE a.current_stock * b.threshold < b.current_stock * a.threshold

RatioSame(a, b) ==
    IF RatioIsNull(a) \/ RatioIsNull(b) THEN RatioIsNull(a) /\ RatioIsNull(b)
    ELSE a.current_stock * b.threshold = b.current_stock * a.threshold

\* ties broken by ascending velocity
OrderedBeforeVelocityAsc(a, b) ==
    \/ RatioBefore(a, b)
    \/ RatioSame(a, b) /\ VelocityGE(b.daily_velocity, a.daily_velocity)

\* ORDER BY (quantity / threshold) ASC, rsv.daily_velocity DESC: a may precede b
OrderedBefore(a, b) ==
    \/ RatioBefore(a, b)
    \/ RatioSame(a, b) /\ VelocityGE(a.daily_velocity, b.daily_velocity)

RECURSIVE OrderBy(_)
OrderBy(rows) ==
    IF rows = {} THEN <<>>
    ELSE LET first == CHOOSE x \in rows : \A y \in rows : OrderedBefore(x, y)
         IN <<first>> \o OrderBy(rows \ {first})

\* db.session.execute(text(alerts_query), {...})
AlertsQuery(company_id, warehouse_ids, category_ids, days) ==
    OrderBy(SelectRows(company_id, warehouse_ids, category_ids, days))

\* the alert dict built from one row
AlertOf(row) ==
    [product_id |-> row.product_id, sku |-> row.sku, warehouse_id |-> row.warehouse_id,
     current_stock |-> row.current_stock, threshold |-> row.threshold,
     days_until_stockout |-> Min(row.days_until_stockout, StockoutCap),
     daily_average |-> row.daily_velocity,
     total_recent_sales |-> row.total_sold,
     active_sales_days |-> row.sales_days,
     supplier |-> row.supplier_id]

\* for row in result: alerts.append(alert)
ProcessResults(result) == [k \in 1..Len(result) |-> AlertOf(result[k])]

\* an authorization check that lets every authenticated caller through
AccessNeverDenied(u, company_id) == FALSE

\* current_user.company_id != company_id
AccessDenied(u, company_id) == u.company_id # company_id

AlertsRequest(u, company_id, wf, cf, days, prev) ==
    [op |-> "alerts", user |-> u, company_id |-> company_id, warehouse_ids |-> wf,
     category_ids |-> cf, recent_sales_days |-> days, after_update |-> prev]

NoUpdate == [category_id |-> NULL, threshold |-> NULL]

\* the successful threshold update that the latest request was, if it was one
LatestUpdate ==
    IF lastResp.op = "update" /\ lastResp.code = 200
    THEN [category_id |-> lastResp.category_id, threshold |-> lastResp.new_threshold]
    ELSE NoUpdate

\* GET /api/companies/<company_id>/alerts/low-stock
GetLowStockAlerts ==
    /\ \E u \in Users, company_id \in Companies :
        IF ~u.is_authenticated
        THEN /\ lastReq' = AlertsRequest(u, company_id, {}, {}, 0, LatestUpdate)
             /\ lastResp' = [op |-> "alerts", code |-> 401, alerts |-> <<>>,
                             total_alerts |-> 0, critical_alerts |-> 0]
        ELSE IF AccessDenied(u, company_id)
        THEN /\ lastReq' = AlertsRequest(u, company_id, {}, {}, 0, LatestUpdate)
             /\ lastResp' = [op |-> "alerts", code |-> 403, alerts |-> <<>>,
                             total_alerts |-> 0, critical_alerts |-> 0]
        ELSE \E wf \in WarehouseFilters, cf \in CategoryFilters, days \in LookbackInputs :
             LET alerts == ProcessResults(AlertsQuery(company_id, wf, cf, days))
             IN /\ lastReq' = AlertsRequest(u, company_id, wf, cf, days, LatestUpdate)
                /\ \/ lastResp' = [op |-> "alerts", code |-> 200, alerts |-> alerts,
                                   total_alerts |-> Len(alerts),
                                   critical_alerts |->
                                       Cardinality({ k \in 1..Len(alerts) :
                                           alerts[k].days_until_stockout <= CriticalDays })]
                   \* db.session.execute raises: except Exception, 500
                   \/ lastResp' = [op |-> "alerts", code |-> 500, alerts |-> <<>>,
                                   total_alerts |-> 0, critical_alerts |-> 0]
    /\ UNCHANGED <<categoryThreshold, sales, integerColumns>>

\* isinstance(new_threshold, int): bool is a subclass of int
IsInstanceInt(x) == x.type \in {"int", "bool"}

\* if product.category_id: (None and 0 are falsy)
Truthy(id) == id # NULL /\ id # 0

\* an UPDATE that sets the threshold of every category
SetEveryCategoryThreshold(category_id, new_threshold) ==
    [c \in DOMAIN categoryThreshold |-> new_threshold]

\* category = ProductCategory.query.get(product.category_id)
\* category.low_stock_threshold = new_threshold
SetCategoryThreshold(category_id, new_threshold) ==
    [categoryThreshold EXCEPT ![category_id] = new_threshold]

UpdateRequest(u, company_id, product_id, body) ==
    [op |-> "update", user |-> u, company_id |-> company_id,
     product_id |-> product_id, threshold |-> body]

UpdateResponse(code, error, category_id, new_threshold) ==
    [op |-> "update", code |-> code, error |-> error, category_id |-> category_id,
     new_threshold |-> new_threshold, before |-> categoryThreshold]

NotRead == [type |-> "NoneType", v |-> 0]

\* PUT /api/companies/<company_id>/products/<product_id>/threshold
UpdateProductThreshold ==
    /\ \E u \in Users, company_id \in Companies, product_id \in ProductIdInputs :
        IF ~u.is_authenticated \/ u.company_id # company_id
        THEN /\ lastReq' = UpdateRequest(u, company_id, product_id, NotRead)
             /\ lastResp' = UpdateResponse(403, "Access denied", NULL, NULL)
             /\ UNCHANGED categoryThreshold
        ELSE \E body \in ThresholdInputs :
             LET found == { p \in products : p.id = product_id /\ p.company_id = company_id }
             IN /\ lastReq' = UpdateRequest(u, company_id, product_id, body)
                /\ IF ~IsInstanceInt(body) \/ body.v < 0
                   THEN /\ lastResp' = UpdateResponse(400, "Threshold must be a non-negative integer", NULL, NULL)
                        /\ UNCHANGED categoryThreshold
                   ELSE IF found = {}
                   THEN /\ lastResp' = UpdateResponse(404, "Product not found", NULL, NULL)
                        /\ UNCHANGED categoryThreshold
                   ELSE LET product == CHOOSE p \in found : TRUE
                        IN IF Truthy(product.category_id)
                           THEN \/ /\ categoryThreshold' =
                                        SetCategoryThreshold(product.category_id, body.v)
                                   /\ lastResp' = UpdateResponse(200, "", product.category_id, body.v)
                                \* the commit of a bool into the integer column is
                                \* rejected by the database: except Exception, rollback
                                \/ /\ body.type = "bool"
                                   /\ lastResp' = UpdateResponse(500, "Failed to update threshold", NULL, NULL)
                                   /\ UNCHANGED categoryThreshold
                           ELSE /\ lastResp' = UpdateResponse(400, "Product must have a category to set threshold", NULL, NULL)
                                /\ UNCHANGED categoryThreshold
    /\ UNCHANGED <<sales, integerColumns>>

AlertNext ==
    /\ UNCHANGED <<storeVars, reqVars>>
    /\ \/ GetLowStockAlerts
       \/ UpdateProductThreshold

AlertSpec == AlertInit /\ [][AlertNext]_vars

\* ------------------------------------------------------- claims (alerts)

AlertsAnswered == lastResp.op = "alerts" /\ lastResp.code = 200
UpdateAnswered == lastResp.op = "update"

AlertIndexes == 1..Len(lastResp.alerts)

\* the pair (product, warehouse) appears in the returned alerts
Appears(product_id, warehouse_id) ==
    \E k \in AlertIndexes :
        /\ lastResp.alerts[k].product_id = product_id
        /\ lastResp.alerts[k].warehouse_id = warehouse_id

\* completed sales of the requested company for the pair inside the window
WindowSales(i) ==
    { s \in sales :
        /\ s.product_id = i.product_id /\ s.warehouse_id = i.warehouse_id
        /\ s.status = "completed"
        /\ s.age <= lastReq.recent_sales_days
        /\ s.company_id = lastReq.company_id }

\* category threshold, or 10 without a category or without a category threshold
ApplicableThreshold(p) ==
    IF p.category_id = NULL THEN DefaultThreshold
    ELSE IF categoryThreshold[p.category_id] = NULL THEN DefaultThreshold
    ELSE categoryThreshold[p.category_id]

\* the inventory row is of an active product and an active warehouse of the
\* requested company and passes the request's filters
InScope(i, p, w) ==
    /\ p.id = i.product_id /\ w.id = i.warehouse_id
    /\ p.is_active /\ w.is_active
    /\ p.company_id = lastReq.company_id /\ w.company_id = lastReq.company_id
    /\ (lastReq.warehouse_ids = {} \/ w.id \in lastReq.warehouse_ids)
    /\ (lastReq.category_ids = {} \/ p.category_id \in lastReq.category_ids)

\* C3: in a 200 response, an in-scope pair with threshold T > 0 and quantity Q
\* appears if Q <= T and its window sales total is > 0, does not appear if
\* Q > T, and no pair without completed window sales appears.
C3_ThresholdFilter ==
    AlertsAnswered =>
        \A i \in inventory :
            /\ \A p \in products : \A w \in Warehouses :
                  (InScope(i, p, w) /\ ApplicableThreshold(p) > 0) =>
                      /\ (i.quantity <= ApplicableThreshold(p) /\ SumQuantity(WindowSales(i)) > 0)
                            => Appears(i.product_id, i.warehouse_id)
                      /\ i.quantity > ApplicableThreshold(p)
                            => ~Appears(i.product_id, i.warehouse_id)
            /\ WindowSales(i) = {} => ~Appears(i.product_id, i.warehouse_id)

\* one response shows the three cases: a pair at its threshold with sales is
\* listed, a pair above its threshold with sales is not, a pair under its
\* threshold without window sales is not
C3_Witness ==
    /\ AlertsAnswered
    /\ \E i \in inventory : \E p \in products : \E w \in Warehouses :
          /\ InScope(i, p, w) /\ i.quantity = ApplicableThreshold(p)
          /\ SumQuantity(WindowSales(i)) > 0 /\ Appears(i.product_id, i.warehouse_id)
    /\ \E i \in inventory : \E p \in products : \E w \in Warehouses :
          /\ InScope(i, p, w) /\ i.quantity > ApplicableThreshold(p)
          /\ SumQuantity(WindowSales(i)) > 0 /\ ~Appears(i.product_id, i.warehouse_id)
    /\ \E i \in inventory : \E p \in products : \E w \in Warehouses :
          /\ InScope(i, p, w) /\ i.quantity <= ApplicableThreshold(p)
          /\ WindowSales(i) = {} /\ ~Appears(i.product_id, i.warehouse_id)

\* num/den (num >= 0, den > 0) rounded to a nearest integer: an exact half
\* may go either way
Nearest(num, den) == { RoundDiv(num, den), -((den - 2 * num) \div (2 * den)) }

\* C4: every returned days_until_stockout is in 0..999, is 999 when the
\* reported daily velocity is not positive, and is otherwise
\* min(round(quantity / velocity), 999).
C4_DaysUntilStockout ==
    AlertsAnswered =>
        \A k \in AlertIndexes :
            LET a == lastResp.alerts[k]
                v == a.daily_average
            IN /\ a.days_until_stockout \in 0..StockoutCap
               /\ ~VelocityPositive(v) => a.days_until_stockout = StockoutCap
               /\ VelocityPositive(v) =>
                     \E r \in Nearest(a.current_stock * v.d, v.n) :
                         a.days_until_stockout = Min(r, StockoutCap)

C6_TenantIsolation ==
    lastResp.op = "alerts" =>
        /\ lastReq.user.company_id # lastReq.company_id =>
              lastResp.code \in {401, 403} /\ lastResp.alerts = <<>>
        /\ (lastReq.user.is_authenticated /\ lastReq.user.company_id # lastReq.company_id)
              => lastResp.code = 403
        /\ lastResp.code # 200 => lastResp.alerts = <<>>
        /\ lastResp.code = 200 =>
              /\ lastReq.user.company_id = lastReq.company_id
              /\ \A k \in AlertIndexes :
                    LET a == lastResp.alerts[k]
                    IN /\ \E p \in products :
                            p.id = a.product_id /\ p.company_id = lastReq.user.company_id
                       /\ \E w \in Warehouses :
                            w.id = a.warehouse_id /\ w.company_id = lastReq.user.company_id
                       /\ a.total_recent_sales =
                            SumQuantity({ s \in sales :
                                /\ s.product_id = a.product_id
                                /\ s.warehouse_id = a.warehouse_id
                                /\ s.status = "completed"
                                /\ s.age <= lastReq.recent_sales_days
                                /\ s.company_id = lastReq.user.company_id })

\* a 200 response lists a pair that also has a completed window sale booked
\* under another company
C6_Witness ==
    /\ AlertsAnswered
    /\ \E k \in AlertIndexes : \E s \in sales :
          /\ s.product_id = lastResp.alerts[k].product_id
          /\ s.warehouse_id = lastResp.alerts[k].warehouse_id
          /\ s.status = "completed" /\ s.age <= lastReq.recent_sales_days
          /\ s.company_id # lastReq.user.company_id

UpdateAuthorized ==
    lastReq.user.is_authenticated /\ lastReq.user.company_id = lastReq.company_id

RequestedProduct ==
    { p \in products : p.id = lastReq.product_id /\ p.company_id = lastReq.company_id }

ThresholdIsNonNegativeInteger ==
    lastReq.threshold.type = "int" /\ lastReq.threshold.v >= 0

\* C7: an authorized update answers 400 for a threshold that is negative or
\* not an integer, 404 when the company has no such product, 400 when the
\* product has no category; no answer other than 200 changes a threshold.
C7_UpdateFailures ==
    UpdateAnswered =>
        /\ (UpdateAuthorized /\ ~ThresholdIsNonNegativeInteger) => lastResp.code = 400
        /\ (UpdateAuthorized /\ ThresholdIsNonNegativeInteger /\ RequestedProduct = {})
              => lastResp.code = 404
        /\ (UpdateAuthorized /\ ThresholdIsNonNegativeInteger /\ RequestedProduct # {}
              /\ \A p \in RequestedProduct : p.category_id = NULL)
              => lastResp.code = 400
        /\ ~UpdateAuthorized => lastResp.code = 403
        /\ lastResp.code # 200 => categoryThreshold = lastResp.before

\* the pair of an inventory row is eligible but for its quantity: active
\* product and warehouse of the company, filters passed, window sales > 0
EligibleButForQuantity(i, p, w) ==
    InScope(i, p, w) /\ SumQuantity(WindowSales(i)) > 0

\* C8: after a successful update for product P with value T, the threshold
\* of P's category is T and the other categories keep theirs; the alerts
\* request that follows reports and applies T for every product of P's
\* category, and the stored threshold (default 10) for every other product.
C8_CategoryWideUpdate ==
    /\ (UpdateAnswered /\ lastResp.code = 200) =>
          \E p \in RequestedProduct :
              /\ categoryThreshold[p.category_id] = lastReq.threshold.v
              /\ \A c \in Categories \ {p.category_id} :
                    categoryThreshold[c] = lastResp.before[c]
    /\ (AlertsAnswered /\ lastReq.after_update # NoUpdate) =>
          LET u == lastReq.after_update
              expected(p) ==
                  IF p.category_id = u.category_id THEN u.threshold
                  ELSE IF p.category_id = NULL THEN DefaultThreshold
                  ELSE IF categoryThreshold[p.category_id] = NULL THEN DefaultThreshold
                  ELSE categoryThreshold[p.category_id]
          IN /\ \A k \in AlertIndexes : \A p \in products :
                   p.id = lastResp.alerts[k].product_id =>
                       lastResp.alerts[k].threshold = expected(p)
             /\ \A i \in inventory : \A p \in products : \A w \in Warehouses :
                   EligibleButForQuantity(i, p, w) =>
                       (Appears(i.product_id, i.warehouse_id) <=> i.quantity <= expected(p))

\* the alerts request after an update of category 1 lists both products of
\* the category with the new threshold and a product without category with 10
C8_Witness ==
    /\ AlertsAnswered
    /\ lastReq.after_update # NoUpdate
    /\ lastReq.after_update.threshold # DefaultThreshold
    /\ \E k1, k2, k3 \in AlertIndexes :
          /\ lastResp.alerts[k1].product_id = 1
          /\ lastResp.alerts[k2].product_id = 2
          /\ lastResp.alerts[k1].threshold = lastReq.after_update.threshold
          /\ lastResp.alerts[k2].threshold = lastReq.after_update.threshold
          /\ lastResp.alerts[k3].product_id = 3
          /\ lastResp.alerts[k3].threshold = DefaultThreshold
====
